---- MODULE Spec2Model ----
(***************************************************************************)
(* Model of src/src/components/DataVisualizer.tsx: the DataVisualizer      *)
(* component's render body (chartData, calculateStats, generateSummary).   *)
(*                                                                         *)
(* JavaScript numbers are IEEE-754 binary floating point.  The model keeps *)
(* the arithmetic (round to nearest, ties to even, after every operation)  *)
(* and scales the format down: a number is an integer count of units of    *)
(* 2^-FracBits and carries at most Precision significant bits (a double    *)
(* has 53).  Inputs are finite numbers; NaN arises only from reading a     *)
(* missing array element (undefined).                                      *)
(***************************************************************************)
EXTENDS Integers, Sequences, FiniteSets

VARIABLES data, chartData, stats, summaries, status, renders

vars == <<data, chartData, stats, summaries, status, renders>>

(* ------------------------------ bounds --------------------------------- *)
MaxRecords == 3
MaxDims == 2
MaxRenders == 2
Precision == 3
FracBits == 2

(* ------------------------- JavaScript numbers -------------------------- *)
One == 2 ^ FracBits

Num(n) == [t |-> "number", v |-> n]
NaN == [t |-> "NaN", v |-> 0]
Undef == [t |-> "undefined", v |-> 0]

IsNum(x) == x.t = "number"

Abs(n) == IF n < 0 THEN -n ELSE n

RECURSIVE BitLen(_)
BitLen(n) == IF n = 0 THEN 0 ELSE 1 + BitLen(n \div 2)

\* distance between neighbouring representable numbers at magnitude q
Spacing(q) == IF q < 2 ^ Precision THEN 1 ELSE 2 ^ (BitLen(q) - Precision)

Representable(n) == Abs(n) % Spacing(Abs(n)) = 0

\* of the neighbours lo and lo + s of num/den, the nearer one; on a tie the
\* one whose significand is even
Nearest(num, den, lo, s) ==
  IF 2 * num < (2 * lo + s) * den THEN lo
  ELSE IF 2 * num > (2 * lo + s) * den THEN lo + s
  ELSE IF (lo \div s) % 2 = 0 THEN lo ELSE lo + s

\* the representable number just below or at q
Floor(q, s) == (q \div s) * s

\* num/den >= 0 rounded to the nearest representable number, ties to even
RoundPos(num, den) ==
  Nearest(num, den, Floor(num \div den, Spacing(num \div den)), Spacing(num \div den))

RoundRat(num, den) ==
  IF num >= 0 THEN RoundPos(num, den) ELSE -RoundPos(-num, den)

\* a + b
JsAdd(a, b) == IF IsNum(a) /\ IsNum(b) THEN Num(RoundRat(a.v + b.v, 1)) ELSE NaN

\* a - b
JsSub(a, b) == IF IsNum(a) /\ IsNum(b) THEN Num(RoundRat(a.v - b.v, 1)) ELSE NaN

\* a / values.length (the length is a positive integer)
JsDivLen(a, len) == IF IsNum(a) THEN Num(RoundRat(a.v, len)) ELSE NaN

\* Math.pow(x, 2), taken as the correctly rounded square
MathPow2(x) == IF IsNum(x) THEN Num(RoundRat(x.v * x.v, One)) ELSE NaN

ISqrt(m) == CHOOSE r \in 0..m : r * r <= m /\ (r + 1) * (r + 1) > m

\* of the neighbours lo and lo + s of sqrt(m), the nearer one
NearestRoot(m, lo, s) ==
  IF 4 * m < (2 * lo + s) * (2 * lo + s) THEN lo
  ELSE IF 4 * m > (2 * lo + s) * (2 * lo + s) THEN lo + s
  ELSE IF (lo \div s) % 2 = 0 THEN lo ELSE lo + s

RootFrom(m, q) == NearestRoot(m, Floor(q, Spacing(q)), Spacing(q))

\* sqrt(m) for an integer m >= 0, rounded to the nearest representable number
SqrtRound(m) == RootFrom(m, ISqrt(m))

\* Math.sqrt(x)
MathSqrt(x) ==
  IF IsNum(x) /\ x.v >= 0 THEN Num(SqrtRound(x.v * One)) ELSE NaN

\* Math.min(...values) for a non-empty list: NaN as soon as one argument
\* is not a number (undefined converts to NaN)
MathMin(values) ==
  IF \E k \in 1..Len(values) : ~IsNum(values[k]) THEN NaN
  ELSE Num(CHOOSE m \in {values[k].v : k \in 1..Len(values)} :
             \A k \in 1..Len(values) : m <= values[k].v)

\* variant: the last element taken for the greatest
MathMaxLast(values) ==
  IF \E k \in 1..Len(values) : ~IsNum(values[k]) THEN NaN
  ELSE values[Len(values)]

\* Math.max(...values)
MathMax(values) ==
  IF \E k \in 1..Len(values) : ~IsNum(values[k]) THEN NaN
  ELSE Num(CHOOSE m \in {values[k].v : k \in 1..Len(values)} :
             \A k \in 1..Len(values) : m >= values[k].v)

\* x < 1
LessThanOne(x) == IsNum(x) /\ x.v < One

\* x.toFixed(digits): sign, and the integer n nearest to |x| * 10^digits
\* (the larger n on a tie); "NaN" for NaN
ToFixed(x, digits) ==
  IF ~IsNum(x) THEN [text |-> "NaN", neg |-> FALSE, n |-> 0]
  ELSE [text |-> "fixed", neg |-> x.v < 0,
        n |-> (2 * Abs(x.v) * (10 ^ digits) + One) \div (2 * One)]

\* values[index], undefined past the end of the array
At(values, index) ==
  IF index \in 1..Len(values) THEN Num(values[index]) ELSE Undef

(* ------------------------------ chartData ------------------------------ *)
\* variant: the series named from the 0-based index
ChartSeriesZeroBased(d, valueIndex) ==
  [label |-> valueIndex - 1,
   data |-> [j \in 1..Len(d) |-> At(d[j].values, valueIndex)],
   hue |-> (valueIndex - 1) * 60]

\* one element of datasets: label `Input ${valueIndex + 1}`, the points
\* data.map(d => d.values[valueIndex]), the hue valueIndex * 60
ChartSeries(d, valueIndex) ==
  [label |-> valueIndex,
   data |-> [j \in 1..Len(d) |-> At(d[j].values, valueIndex)],
   hue |-> (valueIndex - 1) * 60]

ChartDataOf(d) ==
  [labels |-> [j \in 1..Len(d) |-> d[j].label],
   datasets |-> IF d = <<>> THEN <<>>
                ELSE [valueIndex \in 1..Len(d[1].values) |-> ChartSeries(d, valueIndex)]]

(* ---------------------------- calculateStats --------------------------- *)
Undefined == [t |-> "undefined", elems |-> <<>>]
Array(s) == [t |-> "array", elems |-> s]

\* data.map(d => d.values[index])
RECURSIVE ColumnUpTo(_, _, _)
ColumnUpTo(d, index, n) ==
  IF n = 0 THEN <<>>
  ELSE Append(ColumnUpTo(d, index, n - 1), At(d[n].values, index))

Column(d, index) == ColumnUpTo(d, index, Len(d))

\* values.reduce((a, b) => a + b, 0)
RECURSIVE ReduceSum(_, _, _)
ReduceSum(values, k, acc) ==
  IF k > Len(values) THEN acc
  ELSE ReduceSum(values, k + 1, JsAdd(acc, values[k]))

\* variant: the squares of the values, the average not subtracted
RECURSIVE ReduceSquaresRaw(_, _, _, _)
ReduceSquaresRaw(values, avg, k, acc) ==
  IF k > Len(values) THEN acc
  ELSE ReduceSquaresRaw(values, avg, k + 1, JsAdd(acc, MathPow2(values[k])))

\* values.reduce((sum, val) => sum + Math.pow(val - avg, 2), 0)
RECURSIVE ReduceSquares(_, _, _, _)
ReduceSquares(values, avg, k, acc) ==
  IF k > Len(values) THEN acc
  ELSE ReduceSquares(values, avg, k + 1,
                     JsAdd(acc, MathPow2(JsSub(values[k], avg))))

\* const avg = values.reduce((a, b) => a + b, 0) / values.length
AvgOf(values) == JsDivLen(ReduceSum(values, 1, Num(0)), Len(values))

\* variant: the sample standard deviation (divisor N - 1)
StdDevSample(values, avg) ==
  MathSqrt(JsDivLen(ReduceSquares(values, avg, 1, Num(0)),
                    IF Len(values) > 1 THEN Len(values) - 1 ELSE 1))

\* const stdDev = Math.sqrt(values.reduce(...) / values.length)
StdDevOf(values, avg) ==
  MathSqrt(JsDivLen(ReduceSquares(values, avg, 1, Num(0)), Len(values)))

\* return { avg, min, max, stdDev }
StatWith(values, avg) ==
  [avg |-> avg, min |-> MathMin(values), max |-> MathMax(values),
   stdDev |-> StdDevOf(values, avg)]

StatOfColumn(values) == StatWith(values, AvgOf(values))

\* the callback of data[0]?.values.map((_, index) => ...)
StatOf(d, index) == StatOfColumn(Column(d, index))

RECURSIVE StatsUpTo(_, _)
StatsUpTo(d, n) ==
  IF n = 0 THEN <<>> ELSE Append(StatsUpTo(d, n - 1), StatOf(d, n))

\* variant: one result per record instead of one per value of data[0]
calculateStatsPerRecord(d) ==
  IF d = <<>> THEN Undefined
  ELSE Array(StatsUpTo(d, Len(d)))

\* variant: the dimensions cut to the shortest record
calculateStatsShortest(d) ==
  IF d = <<>> THEN Undefined
  ELSE Array(StatsUpTo(d, CHOOSE n \in {Len(d[j].values) : j \in 1..Len(d)} :
                             \A j \in 1..Len(d) : n <= Len(d[j].values)))

\* variant: the results pushed onto an array that outlives the render
calculateStatsAccumulating(d) ==
  IF d = <<>> THEN Undefined
  ELSE Array((IF stats.t = "array" THEN stats.elems ELSE <<>>)
             \o StatsUpTo(d, Len(d[1].values)))

\* data[0]?.values.map(...): undefined when there is no first record
calculateStats(d) ==
  IF d = <<>> THEN Undefined
  ELSE Array(StatsUpTo(d, Len(d[1].values)))

(* --------------------------- generateSummary --------------------------- *)
\* variant: stat.stdDev <= 1
isLowVariationInclusive(stat) == IsNum(stat.stdDev) /\ stat.stdDev.v <= One

\* const isLowVariation = stat.stdDev < 1
isLowVariation(stat) == LessThanOne(stat.stdDev)

SummaryOf(stat, index) ==
  [input |-> index,
   avg |-> ToFixed(stat.avg, 2),
   stdDev |-> ToFixed(stat.stdDev, 2),
   phrase |-> IF isLowVariation(stat) THEN "close to each other" ELSE "spread out",
   min |-> ToFixed(stat.min, 2),
   max |-> ToFixed(stat.max, 2)]

RECURSIVE SummariesUpTo(_, _)
SummariesUpTo(elems, n) ==
  IF n = 0 THEN <<>>
  ELSE Append(SummariesUpTo(elems, n - 1), SummaryOf(elems[n], n))

\* stats.map(...): a TypeError when stats is undefined
generateSummary(st) ==
  IF st.t # "array" THEN [threw |-> TRUE, value |-> <<>>]
  ELSE [threw |-> FALSE, value |-> SummariesUpTo(st.elems, Len(st.elems))]

(* ------------------------------- inputs -------------------------------- *)
\* the records of the bounded datasets carry the values 1.0 and 3.0; the
\* example datasets add other values, negative ones, zero and other labels
InputValues == {1 * One, 3 * One}

ValueRows == UNION {[1..n -> InputValues] : n \in 0..MaxDims}
Records == [label : {"a"}, values : ValueRows]
BoundedDatasets == UNION {[1..n -> Records] : n \in 0..MaxRecords}

Rec(l, vs) == [label |-> l, values |-> vs]

ExampleDatasets ==
  { <<Rec("a", <<1 * One, 2 * One>>), Rec("b", <<3 * One, 4 * One>>)>>,
    <<Rec("a", <<1 * One, 1 * One>>), Rec("b", <<2 * One, 3 * One>>)>>,
    <<Rec("a", <<1 * One>>), Rec("b", <<5 * One>>)>>,
    <<Rec("a", <<-1 * One, 0>>), Rec("b", <<1 * One, 0>>)>>,
    <<Rec("b", <<3 * One, 1 * One>>), Rec("a", <<1 * One>>), Rec("b", <<1 * One, 3 * One>>)>>,
    <<Rec("b", <<-3 * One>>)>> }

Datasets == BoundedDatasets \cup ExampleDatasets

(* ------------------------------- actions ------------------------------- *)
Unset == [t |-> "unset", elems |-> <<>>]

Init ==
  /\ data \in Datasets
  /\ chartData = [labels |-> <<>>, datasets |-> <<>>]
  /\ stats = Unset
  /\ summaries = Unset
  /\ status = "mount"
  /\ renders = 0

\* const summaries = generateSummary(): the render ends here when it throws
RenderSummaries(sm) ==
  IF sm.threw
    THEN status' = "threw" /\ summaries' = summaries
    ELSE status' = "rendered" /\ summaries' = Array(sm.value)

\* const stats = calculateStats(); const summaries = generateSummary()
RenderStats(st) ==
  /\ stats' = st
  /\ RenderSummaries(generateSummary(st))

\* one run of the component body; memo: useMemo keeps chartData when data
\* is the array of the previous render
RenderBody(memo) ==
  /\ chartData' = IF memo THEN chartData ELSE ChartDataOf(data)
  /\ RenderStats(calculateStats(data))
  /\ renders' = renders + 1
  /\ data' = data

Mount ==
  /\ status = "mount"
  /\ RenderBody(FALSE)

Rerender ==
  /\ status = "rendered"
  /\ renders < MaxRenders
  /\ RenderBody(TRUE)

Next == Mount \/ Rerender

Spec == Init /\ [][Next]_vars

(* ------------------------- claims: vocabulary -------------------------- *)
Rendered == status = "rendered"
NonEmpty == data # <<>>
Dims == Len(data[1].values)
Uniform == \A j \in 1..Len(data) : Len(data[j].values) = Dims

\* the column of dimension i of a uniform dataset, as plain numbers
RawColumn(i) == [j \in 1..Len(data) |-> data[j].values[i]]

RECURSIVE PrefixSum(_, _)
PrefixSum(col, k) == IF k = 0 THEN 0 ELSE PrefixSum(col, k - 1) + col[k]

\* sum over the first k elements of (x - m)^2
RECURSIVE SqDev(_, _, _)
SqDev(col, m, k) ==
  IF k = 0 THEN 0 ELSE SqDev(col, m, k - 1) + (col[k] - m) * (col[k] - m)

Least(col) == CHOOSE m \in {col[k] : k \in 1..Len(col)} : \A k \in 1..Len(col) : m <= col[k]
Greatest(col) == CHOOSE m \in {col[k] : k \in 1..Len(col)} : \A k \in 1..Len(col) : m >= col[k]

JsLeq(a, b) == IsNum(a) /\ IsNum(b) /\ a.v <= b.v

\* the running sum of the column needs no rounding
SumExact(col) == \A k \in 1..Len(col) : Representable(PrefixSum(col, k))

AllNaN(stat) ==
  stat.avg = NaN /\ stat.min = NaN /\ stat.max = NaN /\ stat.stdDev = NaN
AllNumbers(stat) ==
  IsNum(stat.avg) /\ IsNum(stat.min) /\ IsNum(stat.max) /\ IsNum(stat.stdDev)

MinLen == CHOOSE n \in {Len(data[j].values) : j \in 1..Len(data)} :
            \A j \in 1..Len(data) : n <= Len(data[j].values)

(* -------------------------------- C1 ----------------------------------- *)
\* C1: for the empty Dataset calculateStats produces an empty sequence of
\* DimensionStats (length 0), not a failure and not an undefined value.
C1_EmptyYieldsEmptySequence ==
  (data = <<>> /\ status # "mount") =>
    (stats.t = "array" /\ Len(stats.elems) = 0)

(* -------------------------------- C2 ----------------------------------- *)
\* C2: calculateStats followed by generateSummary never fails, the empty
\* Dataset included, and yields exactly one summary per DimensionStats.
C2_PipelineTotal ==
  status # "mount" =>
    /\ status = "rendered"
    /\ stats.t = "array"
    /\ summaries.t = "array"
    /\ Len(summaries.elems) = Len(stats.elems)

(* -------------------------------- C3 ----------------------------------- *)
\* C3 as stated: for every non-empty uniform Dataset every DimensionStats
\* has minimum <= average <= maximum.
C3_MinAvgMax ==
  (Rendered /\ NonEmpty /\ Uniform) =>
    \A i \in 1..Dims :
      /\ JsLeq(stats.elems[i].min, stats.elems[i].avg)
      /\ JsLeq(stats.elems[i].avg, stats.elems[i].max)

\* C3 amended: for finite values minimum <= maximum always, and
\* minimum <= average <= maximum whenever the running sum of the column is
\* computed without rounding.
C3_MinAvgMaxWhenSumExact ==
  (Rendered /\ NonEmpty /\ Uniform) =>
    \A i \in 1..Dims :
      /\ JsLeq(stats.elems[i].min, stats.elems[i].max)
      /\ SumExact(RawColumn(i)) =>
           /\ JsLeq(stats.elems[i].min, stats.elems[i].avg)
           /\ JsLeq(stats.elems[i].avg, stats.elems[i].max)

\* a column with an exact sum whose average lies strictly inside its range
C3_Witness ==
  /\ Rendered /\ NonEmpty /\ Uniform
  /\ \E i \in 1..Dims :
       /\ SumExact(RawColumn(i))
       /\ stats.elems[i].min.v < stats.elems[i].avg.v
       /\ stats.elems[i].avg.v < stats.elems[i].max.v

(* -------------------------------- C4 ----------------------------------- *)
\* the statistics of a column come out of exact arithmetic: every
\* intermediate result (running sums, mean, deviations, squares, variance,
\* root) is a representable number, so that no operation rounds
ExactMean(col) == PrefixSum(col, Len(col)) \div Len(col)
ExactVar(col, m) == (SqDev(col, m, Len(col)) \div One) \div Len(col)

NoRounding(col) ==
  /\ SumExact(col)
  /\ PrefixSum(col, Len(col)) % Len(col) = 0
  /\ Representable(ExactMean(col))
  /\ \A k \in 1..Len(col) :
       /\ Representable(col[k] - ExactMean(col))
       /\ ((col[k] - ExactMean(col)) * (col[k] - ExactMean(col))) % One = 0
       /\ Representable(((col[k] - ExactMean(col)) * (col[k] - ExactMean(col))) \div One)
       /\ Representable(SqDev(col, ExactMean(col), k) \div One)
  /\ (SqDev(col, ExactMean(col), Len(col)) \div One) % Len(col) = 0
  /\ Representable(ExactVar(col, ExactMean(col)))
  /\ \E r \in 0..(ExactVar(col, ExactMean(col)) * One) :
       r * r = ExactVar(col, ExactMean(col)) * One /\ Representable(r)

\* the DimensionStats of column i, as the claim's formulas give them
C4_Formulas(stat, col, values, n) ==
  /\ stat.min = Num(Least(col))
  /\ stat.max = Num(Greatest(col))
  /\ stat.avg = JsDivLen(ReduceSum(values, 1, Num(0)), n)
  /\ stat.stdDev = MathSqrt(JsDivLen(ReduceSquares(values, stat.avg, 1, Num(0)), n))
  /\ NoRounding(col) =>
       /\ stat.avg.v * n = PrefixSum(col, n)
       /\ stat.stdDev.v * stat.stdDev.v * n = SqDev(col, stat.avg.v, n)

RowsOf(d) == [j \in 1..Len(d) |-> d[j].values]

\* C4: in a non-empty uniform Dataset the DimensionStats at index i is
\* computed from the column of index i: average = sum / N, minimum and
\* maximum the least and greatest elements, stdDeviation the population
\* standard deviation (divisor N); records [1,2] and [3,4] give
\* (2, 1, 3, 1) and (3, 2, 4, 1).
C4_StatsOfColumn ==
  (Rendered /\ NonEmpty /\ Uniform) =>
    /\ \A i \in 1..Dims :
         C4_Formulas(stats.elems[i], RawColumn(i),
                     [j \in 1..Len(data) |-> Num(data[j].values[i])], Len(data))
    /\ RowsOf(data) = << <<1 * One, 2 * One>>, <<3 * One, 4 * One>> >> =>
         stats.elems =
           << [avg |-> Num(2 * One), min |-> Num(1 * One),
               max |-> Num(3 * One), stdDev |-> Num(1 * One)],
              [avg |-> Num(3 * One), min |-> Num(2 * One),
               max |-> Num(4 * One), stdDev |-> Num(1 * One)] >>

C4_Witness ==
  /\ Rendered
  /\ RowsOf(data) = << <<1 * One, 2 * One>>, <<3 * One, 4 * One>> >>
  /\ NoRounding(RawColumn(1))
  /\ stats.elems[2].stdDev = Num(1 * One)

(* -------------------------------- C5 ----------------------------------- *)
\* C5: for a non-empty Dataset whose records all have D values,
\* calculateStats returns exactly D DimensionStats, in dimension order
\* (result index i describes values index i).
C5_OnePerDimension ==
  (Rendered /\ NonEmpty /\ Uniform) =>
    /\ stats.t = "array"
    /\ Len(stats.elems) = Dims
    /\ \A i \in 1..Dims :
         /\ stats.elems[i].min = Num(Least(RawColumn(i)))
         /\ stats.elems[i].max = Num(Greatest(RawColumn(i)))

\* two dimensions whose columns differ, so that the order shows
C5_Witness ==
  /\ Rendered /\ NonEmpty /\ Uniform
  /\ Dims = 2
  /\ Len(stats.elems) = 2
  /\ stats.elems[1].min # stats.elems[2].min

(* -------------------------------- C6 ----------------------------------- *)
\* C6 as stated: with unequal values lengths calculateStats truncates to
\* the shortest record (count = minimum values length) and never reads
\* past the end of a record's values.
C6_TruncatesToShortest ==
  (Rendered /\ NonEmpty) =>
    /\ Len(stats.elems) = MinLen
    /\ \A i \in 1..Len(stats.elems) : AllNumbers(stats.elems[i])

\* C6 amended: the count is the first record's values length; values of a
\* longer record beyond it are ignored, and an index missing from a
\* shorter record is read as undefined, which makes the four statistics of
\* that dimension NaN.
C6_CountFromFirstRecord ==
  (Rendered /\ NonEmpty) =>
    /\ Len(stats.elems) = Dims
    /\ \A i \in 1..Dims :
         IF \E j \in 1..Len(data) : Len(data[j].values) < i
           THEN AllNaN(stats.elems[i])
           ELSE AllNumbers(stats.elems[i])

\* a later record is shorter than the first, another one longer
C6_Witness ==
  /\ Rendered /\ NonEmpty
  /\ \E j \in 1..Len(data) : Len(data[j].values) < Dims
  /\ \E j \in 1..Len(data) : Len(data[j].values) > MinLen
  /\ Dims > MinLen
  /\ AllNaN(stats.elems[Dims])

(* -------------------------------- C7 ----------------------------------- *)
LowPhrase == "close to each other"
SpreadPhrase == "spread out"

\* C7: the summary of a DimensionStats has the low-variation phrasing
\* exactly when stdDeviation < 1.0 and the spread-out phrasing otherwise;
\* the comparison is strict (1.0 is spread out, 0.5 low, 2.0 spread out),
\* and exactly one of the two phrasings appears.
C7_PhraseByThreshold ==
  Rendered =>
    \A i \in 1..Len(stats.elems) :
      /\ summaries.elems[i].phrase \in {LowPhrase, SpreadPhrase}
      /\ summaries.elems[i].phrase = LowPhrase <=>
           (IsNum(stats.elems[i].stdDev) /\ stats.elems[i].stdDev.v < One)
      /\ stats.elems[i].stdDev = Num(One) => summaries.elems[i].phrase = SpreadPhrase
      /\ stats.elems[i].stdDev = Num(One \div 2) => summaries.elems[i].phrase = LowPhrase
      /\ stats.elems[i].stdDev = Num(2 * One) => summaries.elems[i].phrase = SpreadPhrase

\* records [1,1] and [2,3]: standard deviations 0.5 and exactly 1.0
C7_Witness ==
  /\ Rendered
  /\ Len(stats.elems) = 2
  /\ stats.elems[1].stdDev = Num(One \div 2)
  /\ summaries.elems[1].phrase = LowPhrase
  /\ stats.elems[2].stdDev = Num(One)
  /\ summaries.elems[2].phrase = SpreadPhrase

(* -------------------------------- C8 ----------------------------------- *)
\* C8: for a Dataset of a single record every dimension has
\* stdDeviation = 0 and average = minimum = maximum = the record's value.
C8_SingleRecord ==
  (Rendered /\ Len(data) = 1) =>
    /\ Len(stats.elems) = Dims
    /\ \A i \in 1..Dims :
         /\ stats.elems[i].stdDev = Num(0)
         /\ stats.elems[i].avg = Num(data[1].values[i])
         /\ stats.elems[i].min = Num(data[1].values[i])
         /\ stats.elems[i].max = Num(data[1].values[i])

C8_Witness ==
  /\ Rendered /\ Len(data) = 1 /\ Dims >= 1
  /\ data[1].values[1] # 0
  /\ stats.elems[1].stdDev = Num(0)

(* -------------------------------- C9 ----------------------------------- *)
\* C9: the chart has one series per value of the first record, series i
\* is named Input i (1-based), its points are data[j].values[i] in Dataset
\* order against the labels data[j].label in the same order; the series
\* list of the empty Dataset is empty; for a non-empty Dataset there are
\* as many series as DimensionStats.
C9_ChartSeries ==
  status # "mount" =>
    /\ chartData.labels = [j \in 1..Len(data) |-> data[j].label]
    /\ data = <<>> => chartData.datasets = <<>>
    /\ NonEmpty =>
         /\ Len(chartData.datasets) = Dims
         /\ Len(chartData.datasets) = Len(stats.elems)
         /\ \A i \in 1..Dims :
              /\ chartData.datasets[i].label = i
              /\ Len(chartData.datasets[i].data) = Len(data)
              /\ \A j \in 1..Len(data) :
                   chartData.datasets[i].data[j] =
                     IF i <= Len(data[j].values) THEN Num(data[j].values[i]) ELSE Undef

\* two series over records with different labels and different values
C9_Witness ==
  /\ Rendered /\ Len(data) >= 2 /\ Dims = 2
  /\ chartData.labels[1] # chartData.labels[2]
  /\ Len(chartData.datasets) = 2
  /\ chartData.datasets[1].data # chartData.datasets[2].data
  /\ chartData.datasets[2].data[1] # chartData.datasets[2].data[2]

====
